---- MODULE Spec2Model ----
(***************************************************************************)
(* Entropy accumulator of src/tls/entropy.c: the source registry, the      *)
(* running hash, the gather round and the extraction protocol, run by      *)
(* threads that share one mbedtls_entropy_context.                         *)
(*                                                                         *)
(* Each thread is a small program counter machine.  A public function is   *)
(* one Call action followed by the steps of its body; the steps are cut at *)
(* spin_lock, spin_unlock, each poll callback and each goto target, so     *)
(* that the state between two steps is a state another thread can see.     *)
(* The hash primitive is opaque: a context is the list of the byte strings *)
(* it has absorbed, a digest is the tuple <<"H", context>>.                *)
(***************************************************************************)
EXTENDS Integers, Sequences, FiniteSets, TLC

\* ------------------------------------------------------------------ bounds
\* Sizes of entropy.h, scaled down (the header is not among the sources).
MBEDTLS_ENTROPY_MAX_SOURCES == 2
MBEDTLS_ENTROPY_BLOCK_SIZE == 2
MBEDTLS_ENTROPY_MAX_GATHER == 3
\* Loop limit of mbedtls_entropy_func as explored by Spec (scaled).
MaxLoop == 1
\* Loop limit of the source.
ENTROPY_MAX_LOOP == 256
\* Largest threshold a caller registers.
MaxThreshold == 1
\* Number of calls of public functions in one behaviour: of the one thread
\* of Spec, and of the threads of SpecMT together.
MaxCalls == 3
MaxCallsMT == 3
\* Number of failures of the hash primitive in one behaviour.
MaxHashFail == 1
\* Number of calls in a behaviour of SpecTwin: two sources, an extraction,
\* free, the two sources again, the extraction again.
TwinCalls == 7
\* Number of calls in a behaviour of SpecLoop: a source and an extraction.
LoopCalls == 2
\* Number of calls in a behaviour of SpecLock: while one thread frees, the
\* other registers a source and gathers, and the first calls again.
LockCalls == 4

NumThreads == 2
Threads == 1..NumThreads

\* ---------------------------------------------------------------- values
MBEDTLS_ENTROPY_SOURCE_STRONG == 1
MBEDTLS_ENTROPY_SOURCE_WEAK == 0
\* Tag of update_manual: the first index past the registry.
MBEDTLS_ENTROPY_SOURCE_MANUAL == MBEDTLS_ENTROPY_MAX_SOURCES

OK == "OK"
MBEDTLS_ERR_ENTROPY_SOURCE_FAILED == "ERR_ENTROPY_SOURCE_FAILED"
MBEDTLS_ERR_ENTROPY_MAX_SOURCES == "ERR_ENTROPY_MAX_SOURCES"
MBEDTLS_ERR_ENTROPY_NO_SOURCES_DEFINED == "ERR_ENTROPY_NO_SOURCES_DEFINED"
MBEDTLS_ERR_ENTROPY_NO_STRONG_SOURCE == "ERR_ENTROPY_NO_STRONG_SOURCE"
\* Nonzero return of a poll callback, and of a hash primitive.
POLL_ERR == "ERR_POLL"
HASH_ERR == "ERR_HASH"

NULL == "NULL"
\* Poll callbacks a caller can register: one that never has anything new
\* (0 bytes, no error) and one that may return anything.
PollFns == {"null_poll", "any_poll"}
Handles == {"h"}

Slots == 0..(MBEDTLS_ENTROPY_MAX_SOURCES - 1)

\* A slot of ctx->source after memset/zeroize.
ZeroSource ==
  [f_source |-> NULL, p_source |-> NULL, threshold |-> 0, strong |-> 0, size |-> 0]

\* ------------------------------------------------------------ hash model
\* mbedtls_sha256_init / mbedtls_sha256_free: the context is all zero.
ShaInit == [st |-> "zero", data |-> <<>>]

\* mbedtls_sha256_starts_ret: load the initial value, nothing absorbed.
ShaStarts(c) == [st |-> "started", data |-> <<>>]

\* mbedtls_sha256_update_ret: absorb one byte string.
ShaUpdate(c, bytes) == [c EXCEPT !.data = Append(@, bytes)]

\* mbedtls_sha256_finish_ret: the digest of what the context absorbed.
ShaFinish(c) == <<"H", c.st, c.data>>

\* Mutant of ShaRet: the bytes come back unhashed.
ShaRet_Identity(bytes) == bytes

\* mbedtls_sha256_ret: one-shot hash of a byte string.
ShaRet(bytes) == <<"H", "started", <<bytes>>>>

\* Bytes a source or a caller supplies: who supplied them and how many.
Data(origin, len) == <<"data", origin, len>>

\* The 2-byte header of a contribution.
Header(id, n) == <<"hdr", id, n>>

\* Byte j of a block-sized buffer holding value v.
ByteOf(v, j) == <<"byte", v, j>>
ZeroByte(j) == <<"zero", <<>>, j>>
OrigByte(j) == <<"orig", <<>>, j>>

OutLen == MBEDTLS_ENTROPY_BLOCK_SIZE + 1
OrigOutput == [j \in 1..OutLen |-> OrigByte(j)]

\* Mutant of Memcpy: the whole block is copied whatever len is.
Memcpy_Block(out, v, len) ==
  [j \in 1..OutLen |->
     IF j <= MBEDTLS_ENTROPY_BLOCK_SIZE THEN ByteOf(v, j) ELSE out[j]]

\* memcpy(output, buf, len) where buf holds the block v.
Memcpy(out, v, len) ==
  [j \in 1..OutLen |-> IF j <= len THEN ByteOf(v, j) ELSE out[j]]

\* ------------------------------------------------------------------ state
VARIABLES
  source_count,         \* ctx->source_count
  source,               \* ctx->source[]
  mutex,                \* ctx->mutex: 0 when free, else the holder
  accumulator_started,  \* ctx->accumulator_started
  accumulator,          \* ctx->accumulator
  th,                   \* per thread: pc, the call and its locals
  output,               \* per thread: the caller's output buffer
  calls,                \* calls the callers may still make
  hash_fails,           \* failures the hash primitive may still report
  max_loop,             \* the loop limit mbedtls_entropy_func is built with
  twin                  \* history: an earlier extraction, kept for comparison

ctx == <<source_count, source, mutex, accumulator_started, accumulator>>
env == <<calls, hash_fails, max_loop, twin>>
vars == <<source_count, source, mutex, accumulator_started, accumulator,
          th, output, calls, hash_fails, max_loop, twin>>

NoSizes == [s \in Slots |-> 0]
NoneGot == [s \in Slots |-> -1]

\* Locals of a thread that is in no call.  size0, got and rounds are
\* history: the counters when the current gather round started, the bytes
\* each poll of the round returned (-1: not polled, -2: the poll failed), the
\* number of rounds started.
IdleThread ==
  [pc |-> "idle", op |-> "none", ret |-> OK, len |-> 0,
   f_source |-> NULL, p_source |-> NULL, threshold |-> 0, strong |-> 0,
   i |-> 0, count |-> 0, have_one_strong |-> 0,
   gbuf |-> "none", fbuf |-> <<"none">>, tmp |-> "none",
   rounds |-> 0, size0 |-> NoSizes, got |-> NoneGot]

\* No extraction has been recorded.  stage: 0 nothing recorded, 1 the first
\* extraction recorded, 2 the context freed after it; mark: the calls left
\* when it was freed.
NoRun ==
  [stage |-> 0, count |-> 0, source |-> [s \in Slots |-> ZeroSource],
   got |-> NoneGot, len |-> 0, out |-> OrigOutput, mark |-> 0]

\* A call returns: the locals die, the caller has the return value.
Returned(l) == [IdleThread EXCEPT !.op = l.op, !.ret = l.ret, !.len = l.len]

\* mbedtls_entropy_init, built with MBEDTLS_NO_DEFAULT_ENTROPY_SOURCES (the
\* other build registers its default sources through mbedtls_entropy_add_source,
\* as the callers of this model do).
InitCtx ==
  /\ source_count = 0
  /\ source = [s \in Slots |-> ZeroSource]
  /\ mutex = 0
  /\ accumulator_started = 0
  /\ accumulator = ShaInit
  /\ th = [t \in Threads |-> IdleThread]
  /\ output = [t \in Threads |-> OrigOutput]
  /\ twin = NoRun

Init ==
  /\ InitCtx
  /\ calls = MaxCalls
  /\ hash_fails = MaxHashFail
  /\ max_loop = MaxLoop

\* ------------------------------------------------------------- interface
CanCall(t) == th[t].pc = "idle" /\ calls > 0

\* Mutant of SpinLock: the lock is taken without waiting for its holder.
SpinLock_NoWait(t, at, to) ==
  /\ th[t].pc = at
  /\ mutex' = t
  /\ th' = [th EXCEPT ![t].pc = to]
  /\ UNCHANGED <<source_count, source, accumulator_started, accumulator,
                 output, env>>

\* spin_lock(&ctx->mutex): taken at label `at', the body starts at `to'.
SpinLock(t, at, to) ==
  /\ th[t].pc = at
  /\ mutex = 0
  /\ mutex' = t
  /\ th' = [th EXCEPT ![t].pc = to]
  /\ UNCHANGED <<source_count, source, accumulator_started, accumulator,
                 output, env>>

\* Mutant of SpinUnlock: the call returns without releasing the lock.
SpinUnlock_Keep(t, at) ==
  /\ th[t].pc = at
  /\ th' = [th EXCEPT ![t] = Returned(th[t])]
  /\ UNCHANGED <<source_count, source, mutex, accumulator_started,
                 accumulator, output, env>>

\* spin_unlock(&ctx->mutex) and return ret.
SpinUnlock(t, at) ==
  /\ th[t].pc = at
  /\ mutex' = 0
  /\ th' = [th EXCEPT ![t] = Returned(th[t])]
  /\ UNCHANGED <<source_count, source, accumulator_started, accumulator,
                 output, env>>

\* ------------------------------------------------ mbedtls_entropy_add_source
CallAddSource(t) ==
  /\ CanCall(t)
  /\ \E f \in PollFns, p \in Handles, thr \in 0..MaxThreshold,
        s \in {MBEDTLS_ENTROPY_SOURCE_WEAK, MBEDTLS_ENTROPY_SOURCE_STRONG} :
       th' = [th EXCEPT ![t] = [IdleThread EXCEPT
                !.pc = "as_lock", !.op = "add_source", !.f_source = f,
                !.p_source = p, !.threshold = thr, !.strong = s]]
  /\ calls' = calls - 1
  /\ UNCHANGED <<ctx, output, hash_fails, max_loop, twin>>

AddSourceLock(t) == SpinLock(t, "as_lock", "as_body")

\* Mutant of AddSourceStore: the capacity test is idx > MAX_SOURCES.
AddSourceStore_Off(cnt, src, f, p, thr, s) ==
  IF cnt > MBEDTLS_ENTROPY_MAX_SOURCES
  THEN [count |-> cnt, source |-> src, ret |-> MBEDTLS_ERR_ENTROPY_MAX_SOURCES]
  ELSE [count |-> cnt + 1,
        source |-> [x \in Slots |->
                     IF x = cnt
                     THEN [src[x] EXCEPT !.f_source = f, !.p_source = p,
                                         !.threshold = thr, !.strong = s]
                     ELSE src[x]],
        ret |-> OK]

\* The registry after the body of add_source, and its return value.
AddSourceStore(cnt, src, f, p, thr, s) ==
  IF cnt >= MBEDTLS_ENTROPY_MAX_SOURCES
  THEN [count |-> cnt, source |-> src, ret |-> MBEDTLS_ERR_ENTROPY_MAX_SOURCES]
  ELSE [count |-> cnt + 1,
        source |-> [src EXCEPT ![cnt].f_source = f, ![cnt].p_source = p,
                               ![cnt].threshold = thr, ![cnt].strong = s],
        ret |-> OK]

AddSourceBody(t) ==
  /\ th[t].pc = "as_body"
  /\ LET r == AddSourceStore(source_count, source, th[t].f_source,
                             th[t].p_source, th[t].threshold, th[t].strong)
     IN /\ source_count' = r.count
        /\ source' = r.source
        /\ th' = [th EXCEPT ![t].pc = "as_unlock", ![t].ret = r.ret]
  /\ UNCHANGED <<mutex, accumulator_started, accumulator, output, env>>

AddSourceUnlock(t) == SpinUnlock(t, "as_unlock")

\* ------------------------------------------------------ mbedtls_entropy_free
CallFree(t) ==
  /\ CanCall(t)
  /\ th' = [th EXCEPT ![t] = [IdleThread EXCEPT !.pc = "fr_acc", !.op = "free"]]
  /\ calls' = calls - 1
  /\ UNCHANGED <<ctx, output, hash_fails, max_loop, twin>>

\* mbedtls_sha256_free(&ctx->accumulator); ctx->source_count = 0
FreeAcc(t) ==
  /\ th[t].pc = "fr_acc"
  /\ accumulator' = ShaInit
  /\ source_count' = 0
  /\ th' = [th EXCEPT ![t].pc = "fr_src"]
  /\ UNCHANGED <<source, mutex, accumulator_started, output, env>>

\* Mutant of FreeSrc: accumulator_started is left as it is.
FreeSrc_KeepStarted(t) ==
  /\ th[t].pc = "fr_src"
  /\ source' = [s \in Slots |-> ZeroSource]
  /\ th' = [th EXCEPT ![t] = Returned(th[t])]
  /\ UNCHANGED <<source_count, mutex, accumulator_started, accumulator,
                 output, env>>

\* mbedtls_zeroize(ctx->source, ...); ctx->accumulator_started = 0; return
FreeSrc(t) ==
  /\ th[t].pc = "fr_src"
  /\ source' = [s \in Slots |-> ZeroSource]
  /\ accumulator_started' = 0
  /\ th' = [th EXCEPT ![t] = Returned(th[t])]
  /\ UNCHANGED <<source_count, mutex, accumulator, output, env>>

\* ------------------------------------------------------------ entropy_update
\* The hash primitive calls of entropy_update that can fail for a
\* contribution of len bytes, when the primitive may still fail.
UpdateFails(len, started) ==
  IF hash_fails = 0 THEN {"none"}
  ELSE {"none", "header", "payload"}
         \cup (IF len > MBEDTLS_ENTROPY_BLOCK_SIZE THEN {"prehash"} ELSE {})
         \cup (IF started = 0 THEN {"starts"} ELSE {})

\* Mutant of EntropyUpdate: the header carries the length as supplied, not
\* the length of the payload that is absorbed.
EntropyUpdate_RawLen(acc, started, source_id, data, len, fail) ==
  LET big == len > MBEDTLS_ENTROPY_BLOCK_SIZE
      p == IF big THEN ShaRet(data) ELSE data
      header == Header(source_id, len % 256)
      a0 == IF started = 0 THEN ShaStarts(acc) ELSE acc
  IN IF (big /\ fail = "prehash") \/ (started = 0 /\ fail = "starts")
       THEN [acc |-> acc, started |-> started, ret |-> HASH_ERR, tmp |-> "zero"]
     ELSE IF fail = "header"
       THEN [acc |-> a0, started |-> 1, ret |-> HASH_ERR, tmp |-> "zero"]
     ELSE IF fail = "payload"
       THEN [acc |-> ShaUpdate(a0, header), started |-> 1, ret |-> HASH_ERR,
             tmp |-> "zero"]
     ELSE [acc |-> ShaUpdate(ShaUpdate(a0, header), p), started |-> 1,
           ret |-> OK, tmp |-> "zero"]

\* Mutant of EntropyUpdate: the payload is absorbed before the header.
EntropyUpdate_PayloadFirst(acc, started, source_id, data, len, fail) ==
  LET big == len > MBEDTLS_ENTROPY_BLOCK_SIZE
      p == IF big THEN ShaRet(data) ELSE data
      use_len == IF big THEN MBEDTLS_ENTROPY_BLOCK_SIZE ELSE len
      header == Header(source_id, use_len % 256)
      a0 == IF started = 0 THEN ShaStarts(acc) ELSE acc
  IN IF (big /\ fail = "prehash") \/ (started = 0 /\ fail = "starts")
       THEN [acc |-> acc, started |-> started, ret |-> HASH_ERR, tmp |-> "zero"]
     ELSE IF fail \in {"header", "payload"}
       THEN [acc |-> a0, started |-> 1, ret |-> HASH_ERR, tmp |-> "zero"]
     ELSE [acc |-> ShaUpdate(ShaUpdate(a0, p), header), started |-> 1,
           ret |-> OK, tmp |-> "zero"]

\* entropy_update(ctx, source_id, data, len) where the primitive call `fail'
\* returns nonzero: the accumulator, the started flag and the return value.
EntropyUpdate(acc, started, source_id, data, len, fail) ==
  LET big == len > MBEDTLS_ENTROPY_BLOCK_SIZE
      p == IF big THEN ShaRet(data) ELSE data
      use_len == IF big THEN MBEDTLS_ENTROPY_BLOCK_SIZE ELSE len
      header == Header(source_id, use_len % 256)
      a0 == IF started = 0 THEN ShaStarts(acc) ELSE acc
  IN IF big /\ fail = "prehash"
       THEN [acc |-> acc, started |-> started, ret |-> HASH_ERR, tmp |-> "zero"]
     ELSE IF started = 0 /\ fail = "starts"
       THEN [acc |-> acc, started |-> started, ret |-> HASH_ERR, tmp |-> "zero"]
     ELSE IF fail = "header"
       THEN [acc |-> a0, started |-> 1, ret |-> HASH_ERR, tmp |-> "zero"]
     ELSE IF fail = "payload"
       THEN [acc |-> ShaUpdate(a0, header), started |-> 1, ret |-> HASH_ERR,
             tmp |-> "zero"]
     ELSE [acc |-> ShaUpdate(ShaUpdate(a0, header), p), started |-> 1,
           ret |-> OK, tmp |-> "zero"]

FailCost(fail) == IF fail = "none" THEN 0 ELSE 1

\* ---------------------------------------------- mbedtls_entropy_update_manual
\* Lengths of manual contributions: a whole block, and one byte more.
ManualLens == {MBEDTLS_ENTROPY_BLOCK_SIZE, MBEDTLS_ENTROPY_BLOCK_SIZE + 1}

CallUpdateManual(t) ==
  /\ CanCall(t)
  /\ \E n \in ManualLens :
       th' = [th EXCEPT ![t] = [IdleThread EXCEPT
                !.pc = "um_lock", !.op = "update_manual", !.len = n]]
  /\ calls' = calls - 1
  /\ UNCHANGED <<ctx, output, hash_fails, max_loop, twin>>

UpdateManualLock(t) == SpinLock(t, "um_lock", "um_body")

UpdateManualBody(t) ==
  /\ th[t].pc = "um_body"
  /\ \E fail \in UpdateFails(th[t].len, accumulator_started) :
       LET r == EntropyUpdate(accumulator, accumulator_started,
                              MBEDTLS_ENTROPY_SOURCE_MANUAL,
                              Data(MBEDTLS_ENTROPY_SOURCE_MANUAL, th[t].len),
                              th[t].len, fail)
       IN /\ accumulator' = r.acc
          /\ accumulator_started' = r.started
          /\ th' = [th EXCEPT ![t].pc = "um_unlock", ![t].ret = r.ret,
                              ![t].tmp = r.tmp]
          /\ hash_fails' = hash_fails - FailCost(fail)
  /\ UNCHANGED <<source_count, source, mutex, output, calls, max_loop, twin>>

UpdateManualUnlock(t) == SpinUnlock(t, "um_unlock")

\* ----------------------------------------------------- entropy_gather_internal
\* What one call of the poll callback f can return: ret and *olen.  A slot
\* zeroized by mbedtls_entropy_free holds no callback: the call through it
\* does not return.
PollResults(f) ==
  IF f = "null_poll" THEN {[ret |-> OK, olen |-> 0]}
  ELSE IF f = "any_poll"
    THEN {[ret |-> POLL_ERR, olen |-> 0]}
           \cup {[ret |-> OK, olen |-> n] : n \in {0, 1, MBEDTLS_ENTROPY_MAX_GATHER}}
  ELSE {}

\* Mutant of GatherReturn: mbedtls_entropy_func does not test the result of
\* the round.
GatherReturn_Ignore(l, r) ==
  IF l.op = "gather" THEN "g_unlock" ELSE "f_thresh"

\* Where entropy_gather_internal returns to: mbedtls_entropy_gather unlocks,
\* mbedtls_entropy_func leaves through exit on an error.
GatherReturn(l, r) ==
  IF l.op = "gather" THEN "g_unlock"
  ELSE IF r # OK THEN "f_exit" ELSE "f_thresh"

\* Mutant of NoSources: the test for an empty registry is missing.
NoSources_Never(cnt) == FALSE

\* if (ctx->source_count == 0) return NO_SOURCES_DEFINED
NoSources(cnt) == cnt = 0

\* Mutant of HaveStrong: every source counts as strong.
HaveStrong_Always(have, strong) == 1

\* have_one_strong after looking at a source of the given strength.
HaveStrong(have, strong) ==
  IF strong = MBEDTLS_ENTROPY_SOURCE_STRONG THEN 1 ELSE have

\* Mutant of RoundResult: have_one_strong is not tested.
RoundResult_Ignore(have, r) == r

\* ret after the loop over the sources.
RoundResult(have, r) ==
  IF have = 0 THEN MBEDTLS_ERR_ENTROPY_NO_STRONG_SOURCE ELSE r

\* Entry: the registry is empty, or the round starts at source 0.
GatherStart(t) ==
  /\ th[t].pc = "gi_start"
  /\ IF NoSources(source_count)
     THEN th' = [th EXCEPT
            ![t].ret = MBEDTLS_ERR_ENTROPY_NO_SOURCES_DEFINED,
            ![t].pc = GatherReturn(th[t], MBEDTLS_ERR_ENTROPY_NO_SOURCES_DEFINED)]
     ELSE th' = [th EXCEPT
            ![t].pc = "gi_poll", ![t].i = 0, ![t].have_one_strong = 0,
            ![t].gbuf = "uninit", ![t].rounds = @ + 1,
            ![t].size0 = [s \in Slots |-> source[s].size],
            ![t].got = NoneGot]
  /\ UNCHANGED <<ctx, output, env>>

\* One iteration of the loop over the sources: poll source i, mix what it
\* returned, count it.
GatherPoll(t) ==
  /\ th[t].pc = "gi_poll"
  /\ th[t].i < source_count
  /\ LET i == th[t].i
         strong == HaveStrong(th[t].have_one_strong, source[i].strong)
     IN \E r \in PollResults(source[i].f_source) :
          IF r.ret # OK
          THEN \* goto cleanup: zeroize buf, return ret
               /\ th' = [th EXCEPT ![t].have_one_strong = strong,
                                   ![t].ret = r.ret, ![t].gbuf = "zero",
                                   ![t].got[i] = -2,
                                   ![t].pc = GatherReturn(th[t], r.ret)]
               /\ UNCHANGED <<ctx, output, env>>
          ELSE IF r.olen = 0
          THEN /\ th' = [th EXCEPT ![t].have_one_strong = strong,
                                   ![t].ret = OK, ![t].i = i + 1,
                                   ![t].got[i] = 0]
               /\ UNCHANGED <<ctx, output, env>>
          ELSE \E fail \in UpdateFails(r.olen, accumulator_started) :
               LET u == EntropyUpdate(accumulator, accumulator_started, i,
                                      Data(i, r.olen), r.olen, fail)
               IN /\ accumulator' = u.acc
                  /\ accumulator_started' = u.started
                  /\ hash_fails' = hash_fails - FailCost(fail)
                  /\ IF u.ret # OK
                     THEN \* return ret: buf is left as the poll filled it
                          /\ th' = [th EXCEPT
                                 ![t].have_one_strong = strong,
                                 ![t].ret = u.ret, ![t].gbuf = "dirty",
                                 ![t].tmp = u.tmp, ![t].got[i] = r.olen,
                                 ![t].pc = GatherReturn(th[t], u.ret)]
                          /\ UNCHANGED source
                     ELSE /\ th' = [th EXCEPT
                                 ![t].have_one_strong = strong,
                                 ![t].ret = OK, ![t].gbuf = "dirty",
                                 ![t].tmp = u.tmp, ![t].got[i] = r.olen,
                                 ![t].i = i + 1]
                          /\ source' = [source EXCEPT ![i].size = @ + r.olen]
                  /\ UNCHANGED <<source_count, mutex, output, calls, max_loop, twin>>

\* After the loop: no strong source is an error; cleanup; return.
GatherEnd(t) ==
  /\ th[t].pc = "gi_poll"
  /\ th[t].i >= source_count
  /\ LET r == RoundResult(th[t].have_one_strong, th[t].ret)
     IN th' = [th EXCEPT ![t].ret = r, ![t].gbuf = "zero",
                         ![t].pc = GatherReturn(th[t], r)]
  /\ UNCHANGED <<ctx, output, env>>

\* ---------------------------------------------------- mbedtls_entropy_gather
CallGather(t) ==
  /\ CanCall(t)
  /\ th' = [th EXCEPT ![t] = [IdleThread EXCEPT !.pc = "g_lock", !.op = "gather"]]
  /\ calls' = calls - 1
  /\ UNCHANGED <<ctx, output, hash_fails, max_loop, twin>>

GatherLock(t) == SpinLock(t, "g_lock", "gi_start")

GatherUnlock(t) == SpinUnlock(t, "g_unlock")

\* ------------------------------------------------------ mbedtls_entropy_func
\* Lengths a caller asks for: nothing, a whole block, one byte too many.
FuncLens == {0, MBEDTLS_ENTROPY_BLOCK_SIZE, MBEDTLS_ENTROPY_BLOCK_SIZE + 1}

\* Mutant of LenTooLarge: one byte more than a block is let through.
LenTooLarge_Off(len) == len > MBEDTLS_ENTROPY_BLOCK_SIZE + 1

\* if (len > MBEDTLS_ENTROPY_BLOCK_SIZE) return SOURCE_FAILED
LenTooLarge(len) == len > MBEDTLS_ENTROPY_BLOCK_SIZE

\* The call and the length check made before the lock is taken.
CallFunc(t) ==
  /\ CanCall(t)
  /\ \E n \in FuncLens :
       th' = [th EXCEPT ![t] =
                IF LenTooLarge(n)
                THEN [IdleThread EXCEPT !.op = "func", !.len = n,
                        !.ret = MBEDTLS_ERR_ENTROPY_SOURCE_FAILED]
                ELSE [IdleThread EXCEPT !.pc = "f_lock", !.op = "func",
                        !.len = n, !.fbuf = <<"uninit">>]]
  /\ output' = [output EXCEPT ![t] = OrigOutput]
  /\ calls' = calls - 1
  /\ UNCHANGED <<ctx, hash_fails, max_loop, twin>>

FuncLock(t) == SpinLock(t, "f_lock", "f_loop")

\* Mutant of LoopExceeded: the limit is tested one round late.
LoopExceeded_Late(count, limit) == count > limit + 1

\* count++ > ENTROPY_MAX_LOOP, on the value count has before the increment.
LoopExceeded(count, limit) == count > limit

\* Head of the do-while: if (count++ > ENTROPY_MAX_LOOP) fail, else gather.
FuncLoop(t) ==
  /\ th[t].pc = "f_loop"
  /\ IF LoopExceeded(th[t].count, max_loop)
     THEN th' = [th EXCEPT ![t].count = @ + 1,
                           ![t].ret = MBEDTLS_ERR_ENTROPY_SOURCE_FAILED,
                           ![t].pc = "f_exit"]
     ELSE th' = [th EXCEPT ![t].count = @ + 1, ![t].pc = "gi_start"]
  /\ UNCHANGED <<ctx, output, env>>

\* Mutant of ThresholdsMet: done is overwritten in every iteration, so only
\* the last source decides.
ThresholdsMet_Last(cnt, src) ==
  cnt = 0 \/ ~(src[cnt - 1].size < src[cnt - 1].threshold)

\* done: every registered source has reached its threshold.
ThresholdsMet(cnt, src) ==
  \A s \in Slots : s < cnt => ~(src[s].size < src[s].threshold)

\* Tail of the do-while: while (!done).
FuncThresh(t) ==
  /\ th[t].pc = "f_thresh"
  /\ th' = [th EXCEPT ![t].pc = IF ThresholdsMet(source_count, source)
                                THEN "f_finish" ELSE "f_loop"]
  /\ UNCHANGED <<ctx, output, env>>

FinishFails ==
  IF hash_fails = 0 THEN {"none"}
  ELSE {"none", "finish", "starts", "update", "second"}

\* Mutant of ResetSizes: the reset loop starts at source 1.
ResetSizes_SkipFirst(cnt, src) ==
  [s \in Slots |-> IF 0 < s /\ s < cnt THEN [src[s] EXCEPT !.size = 0] ELSE src[s]]

\* The counters after the reset loop of a successful extraction.
ResetSizes(cnt, src) ==
  [s \in Slots |-> IF s < cnt THEN [src[s] EXCEPT !.size = 0] ELSE src[s]]

\* Mutant of FinishOutput: the copy to the caller is made before the result
\* of the hash steps is known.
FinishOutput_Early(out, v, len, fail) == Memcpy(out, v, len)

\* The caller's buffer after the final step: memcpy(output, buf, len) is
\* reached only when no hash step failed.
FinishOutput(out, v, len, fail) ==
  IF fail = "none" THEN Memcpy(out, v, len) ELSE out

\* From memset(buf) to ret = 0: finish, restart, feed the digest back, hash
\* it again, reset the counters, copy out.  A failing primitive leaves
\* through exit with what was done before it.
FuncFinish(t) ==
  /\ th[t].pc = "f_finish"
  /\ \E fail \in FinishFails :
       LET digest == ShaFinish(accumulator)
           fresh == ShaStarts(ShaInit)
           fed == ShaUpdate(fresh, digest)
       IN /\ hash_fails' = hash_fails - FailCost(fail)
          /\ accumulator' =
               IF fail = "finish" THEN accumulator
               ELSE IF fail = "starts" THEN ShaInit
               ELSE IF fail = "update" THEN fresh
               ELSE fed
          /\ source' = IF fail = "none" THEN ResetSizes(source_count, source)
                       ELSE source
          /\ output' = [output EXCEPT
                         ![t] = FinishOutput(@, ShaRet(digest), th[t].len, fail)]
          /\ th' = [th EXCEPT
                 ![t].fbuf = IF fail = "finish" THEN <<"zero">>
                             ELSE IF fail = "none" THEN ShaRet(digest)
                             ELSE digest,
                 ![t].ret = IF fail = "none" THEN OK ELSE HASH_ERR,
                 ![t].pc = "f_exit"]
  /\ UNCHANGED <<source_count, mutex, accumulator_started, calls, max_loop, twin>>

\* Mutant of FuncExit: buf is not zeroized at exit.
FuncExit_NoZero(t) ==
  /\ th[t].pc = "f_exit"
  /\ th' = [th EXCEPT ![t].pc = "f_unlock"]
  /\ UNCHANGED <<ctx, output, env>>

\* exit: mbedtls_zeroize(buf)
FuncExit(t) ==
  /\ th[t].pc = "f_exit"
  /\ th' = [th EXCEPT ![t].fbuf = <<"zero">>, ![t].pc = "f_unlock"]
  /\ UNCHANGED <<ctx, output, env>>

FuncUnlock(t) == SpinUnlock(t, "f_unlock")

\* ------------------------------------------------------------ specification
Step(t) ==
  \/ CallAddSource(t) \/ AddSourceLock(t) \/ AddSourceBody(t) \/ AddSourceUnlock(t)
  \/ CallFree(t) \/ FreeAcc(t) \/ FreeSrc(t)
  \/ CallUpdateManual(t) \/ UpdateManualLock(t) \/ UpdateManualBody(t)
  \/ UpdateManualUnlock(t)
  \/ CallGather(t) \/ GatherLock(t) \/ GatherUnlock(t)
  \/ GatherStart(t) \/ GatherPoll(t) \/ GatherEnd(t)
  \/ CallFunc(t) \/ FuncLock(t) \/ FuncLoop(t) \/ FuncThresh(t)
  \/ FuncFinish(t) \/ FuncExit(t) \/ FuncUnlock(t)

\* One caller: the calls of a behaviour follow one another.
Next == Step(1)

Spec == Init /\ [][Next]_vars

\* The threads call concurrently.
InitMT ==
  /\ InitCtx
  /\ calls = MaxCallsMT
  /\ hash_fails = 0
  /\ max_loop = MaxLoop

NextMT == \E t \in Threads : Step(t)

SpecMT == InitMT /\ [][NextMT]_vars

\* The one caller of Spec keeps running: a call that can take a step does.
SpecFair == Spec /\ WF_vars(Next)

\* History for the comparison of two extractions.  The first extraction of
\* a behaviour, made after nothing but successful registrations and done in
\* one round, is recorded when it is about to unlock after success.
TwinRecord(t) ==
  /\ twin.stage = 0
  /\ th[t].op = "func" /\ th[t].pc = "f_unlock" /\ th[t].ret = OK
  /\ th[t].rounds = 1
  /\ TwinCalls - calls = source_count + 1
  /\ twin' = [stage |-> 1, count |-> source_count, source |-> source,
              got |-> th[t].got, len |-> th[t].len, out |-> output[t],
              mark |-> 0]
  /\ UNCHANGED <<ctx, th, output, calls, hash_fails, max_loop>>

\* mbedtls_entropy_free has just returned after the recorded extraction.
TwinFreed(t) ==
  /\ twin.stage = 1
  /\ th[t].op = "free" /\ th[t].pc = "idle"
  /\ twin' = [twin EXCEPT !.stage = 2, !.mark = calls]
  /\ UNCHANGED <<ctx, th, output, calls, hash_fails, max_loop>>

\* The calls of the comparison: sources are registered on a context that
\* has not been used, an extraction follows registrations, and the context
\* is freed once an extraction has been recorded.  After that the caller
\* registers the recorded sources again and asks for the recorded length,
\* and the polls return what they returned in the recorded extraction.
TwinAddSource(t) ==
  /\ th[t].op \in {"none", "add_source", "free"}
  /\ th[t].op = "free" => twin.stage = 2
  /\ CallAddSource(t)
  /\ twin.stage = 2
       => /\ source_count < twin.count
          /\ th'[t].f_source = twin.source[source_count].f_source
          /\ th'[t].p_source = twin.source[source_count].p_source
          /\ th'[t].threshold = twin.source[source_count].threshold
          /\ th'[t].strong = twin.source[source_count].strong

TwinFunc(t) ==
  /\ th[t].op = "add_source"
  /\ CallFunc(t)
  /\ twin.stage = 2 => source_count = twin.count /\ th'[t].len = twin.len

TwinFree(t) == twin.stage = 1 /\ CallFree(t)

TwinPoll(t) ==
  /\ GatherPoll(t)
  /\ twin.stage = 2 => th'[t].got[th[t].i] = twin.got[th[t].i]

\* One caller that registers sources, extracts, frees and does it again, and
\* whose hash primitive does not fail.
InitTwin ==
  /\ InitCtx
  /\ calls = TwinCalls
  /\ hash_fails = 0
  /\ max_loop = MaxLoop

NextTwin ==
  \/ TwinAddSource(1) \/ AddSourceLock(1) \/ AddSourceBody(1) \/ AddSourceUnlock(1)
  \/ TwinFree(1) \/ FreeAcc(1) \/ FreeSrc(1)
  \/ GatherStart(1) \/ TwinPoll(1) \/ GatherEnd(1)
  \/ TwinFunc(1) \/ FuncLock(1) \/ FuncLoop(1) \/ FuncThresh(1)
  \/ FuncFinish(1) \/ FuncExit(1) \/ FuncUnlock(1)
  \/ TwinRecord(1) \/ TwinFreed(1)

SpecTwin == InitTwin /\ [][NextTwin]_vars

\* ================================================================ properties
Registered(s) == s \in Slots /\ s < source_count

\* The labels at which the next step of a thread reads or writes the
\* registry, the accumulator, the started flag or a byte counter.
AccessPcs ==
  {"as_body", "um_body", "gi_start", "gi_poll", "f_thresh", "f_finish",
   "fr_acc", "fr_src"}
Accessing(t) == th[t].pc \in AccessPcs

\* The labels at which a gather round or an extraction has ended and the
\* call has not returned yet.
GatherDonePcs == {"g_unlock", "f_exit", "f_unlock"}
FuncDonePcs == {"f_exit", "f_unlock"}

\* C1 (as claimed): no two threads are at an access to the registry, the
\* accumulator or a counter at the same time, whichever of add_source,
\* update_manual, gather, func and free they are in.
C1_NoConcurrentAccess ==
  \A t1, t2 \in Threads : t1 # t2 => ~(Accessing(t1) /\ Accessing(t2))

\* C1 (amended): a thread in add_source, update_manual, gather or func is at
\* an access only while it holds the lock, so no two such threads are at an
\* access together; mbedtls_entropy_free is the one operation that takes no
\* lock.
C1_LockedOperationsExclusive ==
  /\ \A t \in Threads : Accessing(t) /\ th[t].op # "free" => mutex = t
  /\ \A t1, t2 \in Threads :
       t1 # t2 /\ Accessing(t1) /\ Accessing(t2)
         => th[t1].op = "free" \/ th[t2].op = "free"

\* Two threads are inside locked operations, one at an access to the
\* context and the other spinning on the lock.
C1_Witness ==
  \E t1, t2 \in Threads :
    /\ th[t1].pc = "gi_poll" /\ mutex = t1
    /\ th[t2].pc \in {"as_lock", "um_lock", "g_lock", "f_lock"}

\* C2: extraction reaches the step that finalizes the hash only with the
\* counter of every registered source at or above its threshold, and it ends
\* with success only through that step (its buffer then holds a hash).
C2_FinalizeOnlyAboveThresholds ==
  \A t \in Threads :
    /\ th[t].pc = "f_finish"
         => \A s \in Slots :
              Registered(s) => source[s].size >= source[s].threshold
    /\ th[t].pc \in FuncDonePcs /\ th[t].ret = OK
         => th[t].pc = "f_unlock" \/ th[t].fbuf[1] = "H"

\* Extraction finalizes after a retry, with two sources registered and a
\* positive threshold reached.
C2_Witness ==
  \E t \in Threads :
    /\ th[t].pc = "f_finish" /\ th[t].rounds = 2 /\ source_count = 2
    /\ source[1].threshold > 0 /\ source[1].size >= source[1].threshold

\* C3: when a successful extraction is about to release the lock every
\* registered counter is zero, and a counter only ever decreases in the
\* successful final step of an extraction (or in free): a failed extraction
\* resets none.
C3_ZeroAtUnlock ==
  \A t \in Threads :
    th[t].pc = "f_unlock" /\ th[t].ret = OK
      => \A s \in Slots : Registered(s) => source[s].size = 0

C3_DecreaseOnlyOnSuccess ==
  \A s \in Slots :
    source'[s].size < source[s].size
      => \E t \in Threads :
           \/ th[t].pc = "f_finish" /\ th'[t].pc = "f_exit" /\ th'[t].ret = OK
           \/ th[t].pc = "fr_src" /\ th'[t].pc = "idle"

C3_CountersResetOnSuccessOnly ==
  [](C3_ZeroAtUnlock) /\ [][C3_DecreaseOnlyOnSuccess]_vars

\* A successful extraction is about to unlock; both sources returned bytes
\* in its last round and their counters are zero again.
C3_Witness ==
  \E t \in Threads :
    /\ th[t].pc = "f_unlock" /\ th[t].ret = OK /\ source_count = 2
    /\ th[t].got[0] > 0 /\ th[t].got[1] > 0
    /\ source[0].size = 0 /\ source[1].size = 0

\* A source that never has anything and is asked for at least one byte.
Stalled(s) ==
  Registered(s) /\ source[s].f_source = "null_poll" /\ source[s].threshold > 0

InFunc(t) == th[t].op = "func" /\ th[t].pc # "idle"

\* Errors with which a gather round fails.
RoundErrors == {POLL_ERR, HASH_ERR, MBEDTLS_ERR_ENTROPY_NO_STRONG_SOURCE}

\* C4 (as claimed): with a stalled source registered an extraction ends with
\* the loop-limit error, after the rounds the limit allows.
C4_StalledEndsLoopExceeded ==
  \A t \in Threads :
    InFunc(t) /\ (\E s \in Slots : Stalled(s)) /\ th[t].pc \in FuncDonePcs
      => /\ th[t].ret = MBEDTLS_ERR_ENTROPY_SOURCE_FAILED
         /\ th[t].rounds = max_loop + 1

\* C4 (amended): with a stalled source registered an extraction never
\* reaches the finalizing step, starts at most max_loop + 1 rounds and ends
\* in failure: with the error of a round that failed (a poll error, a hash
\* error, no strong source registered), and otherwise with the loop-limit
\* error after exactly max_loop + 1 rounds; and every extraction returns
\* with the lock released.
C4_StalledState ==
  \A t \in Threads :
    InFunc(t) /\ (\E s \in Slots : Stalled(s))
      => /\ th[t].pc # "f_finish"
         /\ th[t].rounds <= max_loop + 1
         /\ th[t].pc \in FuncDonePcs
              => /\ th[t].ret # OK
                 /\ th[t].ret \notin RoundErrors
                      => /\ th[t].ret = MBEDTLS_ERR_ENTROPY_SOURCE_FAILED
                         /\ th[t].count = max_loop + 2
                         /\ th[t].rounds = max_loop + 1

C4_Returns ==
  \A t \in Threads : InFunc(t) ~> (th[t].pc = "idle" /\ mutex = 0)

C4_StalledExtractTerminates == [](C4_StalledState) /\ C4_Returns

\* An extraction over two sources, one of them stalled, has used up its
\* rounds and leaves with the loop-limit error.
C4_Witness ==
  \E t \in Threads :
    /\ th[t].pc = "f_exit" /\ source_count = 2 /\ \E s \in Slots : Stalled(s)
    /\ th[t].ret = MBEDTLS_ERR_ENTROPY_SOURCE_FAILED
    /\ th[t].rounds = max_loop + 1

\* C5: a call of func with len above the block size returns failure in the
\* call step itself: the thread never leaves idle, the context is unchanged
\* and the caller's buffer is as it was.
C5_RejectStep ==
  \A t \in Threads :
    th[t].pc = "idle" /\ th'[t] # th[t] /\ th'[t].op = "func"
      /\ th'[t].len > MBEDTLS_ENTROPY_BLOCK_SIZE
      => /\ th'[t].pc = "idle"
         /\ th'[t].ret = MBEDTLS_ERR_ENTROPY_SOURCE_FAILED
         /\ UNCHANGED ctx
         /\ output'[t] = OrigOutput

C5_RejectState ==
  \A t \in Threads :
    th[t].op = "func" /\ th[t].len > MBEDTLS_ENTROPY_BLOCK_SIZE
      => /\ th[t].pc = "idle"
         /\ th[t].ret # OK
         /\ output[t] = OrigOutput

C5_OversizeRejectedUntouched == [](C5_RejectState) /\ [][C5_RejectStep]_vars

\* An oversized request has been rejected on a context that has a source
\* and absorbed data.
C5_Witness ==
  \E t \in Threads :
    /\ th[t].op = "func" /\ th[t].len = MBEDTLS_ENTROPY_BLOCK_SIZE + 1
    /\ th[t].pc = "idle" /\ th[t].ret = MBEDTLS_ERR_ENTROPY_SOURCE_FAILED
    /\ source_count > 0 /\ accumulator.data # <<>>

\* C6: the count stays within 0..MAX_SOURCES; the body of add_source on a
\* full registry returns MAX_SOURCES and changes neither the count nor any
\* entry, and otherwise stores the arguments at index count, leaves the
\* other entries as they were and adds one to the count.
C6_CountInRange == source_count \in 0..MBEDTLS_ENTROPY_MAX_SOURCES

C6_AddStep ==
  \A t \in Threads :
    th[t].pc = "as_body" /\ th'[t].pc = "as_unlock"
      => IF source_count = MBEDTLS_ENTROPY_MAX_SOURCES
         THEN /\ th'[t].ret = MBEDTLS_ERR_ENTROPY_MAX_SOURCES
              /\ UNCHANGED <<source_count, source>>
         ELSE /\ th'[t].ret = OK
              /\ source_count' = source_count + 1
              /\ source'[source_count] =
                   [f_source |-> th[t].f_source, p_source |-> th[t].p_source,
                    threshold |-> th[t].threshold, strong |-> th[t].strong,
                    size |-> source[source_count].size]
              /\ \A s \in Slots : s # source_count => source'[s] = source[s]

C6_RegistryBounded == [](C6_CountInRange) /\ [][C6_AddStep]_vars

\* add_source has just been refused on a full registry.
C6_Witness ==
  \E t \in Threads :
    /\ th[t].pc = "as_unlock"
    /\ th[t].ret = MBEDTLS_ERR_ENTROPY_MAX_SOURCES
    /\ source_count = MBEDTLS_ENTROPY_MAX_SOURCES

\* C7: a gather round entered with an empty registry returns
\* NO_SOURCES_DEFINED in one step that polls nothing and leaves the
\* accumulator, the started flag and the registry alone; in func this is the
\* first round, and the call ends with that error and an untouched buffer.
C7_EmptyStep ==
  \A t \in Threads :
    th[t].pc = "gi_start" /\ source_count = 0 /\ th'[t] # th[t]
      => /\ th'[t].ret = MBEDTLS_ERR_ENTROPY_NO_SOURCES_DEFINED
         /\ th'[t].pc = IF th[t].op = "gather" THEN "g_unlock" ELSE "f_exit"
         /\ th'[t].got = NoneGot /\ th'[t].rounds = 0
         /\ th[t].op = "func" => th[t].count = 1
         /\ UNCHANGED <<source_count, source, accumulator,
                        accumulator_started, output>>

C7_EmptyState ==
  \A t \in Threads :
    th[t].pc \in GatherDonePcs /\ source_count = 0
      => /\ th[t].ret = MBEDTLS_ERR_ENTROPY_NO_SOURCES_DEFINED
         /\ th[t].rounds = 0
         /\ th[t].op = "func" => output[t] = OrigOutput

C7_NoSourcesFails == [](C7_EmptyState) /\ [][C7_EmptyStep]_vars

\* An extraction of a whole block has failed on an empty registry whose
\* accumulator had been started by a manual update.
C7_Witness ==
  \E t \in Threads :
    /\ th[t].pc = "f_exit" /\ th[t].len = MBEDTLS_ENTROPY_BLOCK_SIZE
    /\ source_count = 0 /\ accumulator_started = 1
    /\ th[t].ret = MBEDTLS_ERR_ENTROPY_NO_SOURCES_DEFINED

\* The sources below index upto that returned bytes in the current round.
Contributors(t, upto) == {s \in Slots : s < upto /\ th[t].got[s] > 0}

\* The accumulator ends with the contributions of those sources, in the
\* order of the registry: for each its header, tagged with its index, and
\* then its bytes (or their hash).
MixedInOrder(t, upto) ==
  LET C == Contributors(t, upto)
      d == accumulator.data
  IN /\ Len(d) >= 2 * Cardinality(C)
     /\ \A s \in C :
          LET r == Cardinality({u \in C : u > s})
              h == d[Len(d) - 2 * r - 1]
              pl == d[Len(d) - 2 * r]
          IN /\ h[1] = "hdr" /\ h[2] = s
             /\ pl \in {Data(s, th[t].got[s]), ShaRet(Data(s, th[t].got[s]))}

\* The loop over the sources of the current round ran to its end.
LoopComplete(t) == th[t].rounds >= 1 /\ th[t].i = source_count

AllWeak ==
  /\ source_count > 0
  /\ \A s \in Slots : Registered(s) => source[s].strong = MBEDTLS_ENTROPY_SOURCE_WEAK

StrongRegistered ==
  \E s \in Slots : Registered(s) /\ source[s].strong = MBEDTLS_ENTROPY_SOURCE_STRONG

\* C8: when every registered source is weak and every poll of a round
\* returned bytes, the round ends with NO_STRONG_SOURCE, with every counter
\* raised by what its poll returned and the bytes mixed in; func leaves with
\* that error whatever the thresholds and does not write the output.
C8_AllWeakRoundFails ==
  \A t \in Threads :
    /\ th[t].pc \in GatherDonePcs /\ AllWeak /\ LoopComplete(t)
         /\ (\A s \in Slots : Registered(s) => th[t].got[s] > 0)
         => /\ th[t].ret = MBEDTLS_ERR_ENTROPY_NO_STRONG_SOURCE
            /\ th[t].op = "func" => output[t] = OrigOutput
            /\ \A s \in Slots :
                 Registered(s) => source[s].size = th[t].size0[s] + th[t].got[s]
            /\ MixedInOrder(t, source_count)
    /\ InFunc(t) /\ AllWeak => th[t].pc \notin {"f_thresh", "f_finish"}

\* An extraction over two weak sources, both at their threshold after the
\* round, leaves with NO_STRONG_SOURCE.
C8_Witness ==
  \E t \in Threads :
    /\ th[t].pc = "f_exit" /\ source_count = 2 /\ AllWeak /\ LoopComplete(t)
    /\ th[t].got[0] > 0 /\ th[t].got[1] > 0
    /\ source[0].threshold > 0
    /\ ThresholdsMet(source_count, source)
    /\ th[t].ret = MBEDTLS_ERR_ENTROPY_NO_STRONG_SOURCE

\* No strong source returned bytes in the current round.
NoStrongBytes(t) ==
  \A s \in Slots :
    Registered(s) /\ source[s].strong = MBEDTLS_ENTROPY_SOURCE_STRONG
      => th[t].got[s] <= 0

\* C9 (as claimed): a round that ran over all sources and in which no strong
\* source returned bytes does not end with success.
C9_NoStrongBytesFails ==
  \A t \in Threads :
    th[t].pc \in {"g_unlock", "f_thresh"} /\ LoopComplete(t) /\ NoStrongBytes(t)
      => th[t].ret # OK

\* C9 (amended): a round that ran over all sources fails, with
\* NO_STRONG_SOURCE, exactly when no strong source is registered; with a
\* strong source registered it succeeds, whether or not that source returned
\* bytes.
C9_RoundFailsIffNoStrongRegistered ==
  \A t \in Threads :
    /\ th[t].pc \in GatherDonePcs /\ LoopComplete(t) /\ ~StrongRegistered
         => th[t].ret = MBEDTLS_ERR_ENTROPY_NO_STRONG_SOURCE
    /\ th[t].pc \in {"g_unlock", "f_thresh"} /\ LoopComplete(t) /\ StrongRegistered
         => th[t].ret = OK
    /\ th[t].pc = "f_thresh" => LoopComplete(t) /\ StrongRegistered

\* A round over a strong source that returned nothing and a weak source
\* that returned bytes has ended with success.
C9_Witness ==
  \E t \in Threads :
    /\ th[t].pc = "g_unlock" /\ LoopComplete(t) /\ source_count = 2
    /\ StrongRegistered /\ NoStrongBytes(t)
    /\ \E s \in Slots : Registered(s) /\ th[t].got[s] > 0
    /\ th[t].ret = OK

\* C10: when the poll of source k fails the round ends there and the call
\* is on its way out with the error of the poll: the sources after k are not
\* polled, the counters from k on are what they were when the round started,
\* each counter before k is that plus what its poll returned, and those
\* bytes are in the accumulator.
C10_PollErrorAbortsRound ==
  \A t \in Threads : \A k \in Slots :
    th[t].got[k] = -2
      => /\ th[t].pc \in GatherDonePcs
         /\ th[t].ret = POLL_ERR
         /\ th[t].i = k
         /\ \A s \in Slots :
              Registered(s)
                => /\ s < k => /\ th[t].got[s] >= 0
                               /\ source[s].size = th[t].size0[s] + th[t].got[s]
                   /\ s >= k => source[s].size = th[t].size0[s]
                   /\ s > k => th[t].got[s] = -1
         /\ MixedInOrder(t, k)
         /\ th[t].op = "func" => output[t] = OrigOutput

\* The poll of the second source failed in the second round of an
\* extraction, after the first source had returned bytes.
C10_Witness ==
  \E t \in Threads :
    /\ th[t].pc = "f_exit" /\ th[t].rounds = 2
    /\ th[t].got[1] = -2 /\ th[t].got[0] > 0
    /\ source[0].size > th[t].size0[0]

\* The thresholds are met by the counters as they stand.
AllDelivered == ThresholdsMet(source_count, source)

\* The bytes of the caller's buffer after a copy of len bytes of the block v.
Written(out, v, len) ==
  /\ \A j \in 1..OutLen : j <= len => out[j] = ByteOf(v, j)
  /\ \A j \in 1..OutLen : j > len => out[j] = OrigByte(j)

\* C11: an extraction of a valid length that is at its end has succeeded
\* unless no strong source is registered, a poll or a hash step failed, or
\* the rounds ran out with a threshold not met; and when it has succeeded the
\* first len bytes of the caller's buffer are those of one hash value and
\* every byte from len on is what it was.
C11_ValidExtractSucceeds ==
  \A t \in Threads :
    th[t].op = "func" /\ th[t].pc \in FuncDonePcs
      => /\ th[t].len \in 0..MBEDTLS_ENTROPY_BLOCK_SIZE
         /\ th[t].ret # OK
              => \/ ~StrongRegistered
                 \/ th[t].ret \in {POLL_ERR, HASH_ERR}
                 \/ /\ th[t].ret = MBEDTLS_ERR_ENTROPY_SOURCE_FAILED
                    /\ ~AllDelivered
                    /\ th[t].rounds = max_loop + 1
         /\ th[t].ret = OK
              => \E v \in {accumulator.data[1]} :
                   Written(output[t], ShaRet(v), th[t].len)

\* An extraction of no bytes has succeeded on its second round and the
\* caller's buffer is as it was.
C11_Witness ==
  \E t \in Threads :
    /\ th[t].op = "func" /\ th[t].pc = "f_unlock" /\ th[t].ret = OK
    /\ th[t].len = 0 /\ th[t].rounds = 2
    /\ output[t] = OrigOutput

\* C12: the caller's buffer differs from what the caller passed only when
\* the extraction has passed its final step with success: while the call
\* runs, and after any failing return, it is as it was.
C12_OutputOnlyOnSuccess ==
  \A t \in Threads :
    th[t].op = "func"
      /\ (th[t].pc \notin (FuncDonePcs \cup {"idle"}) \/ th[t].ret # OK)
      => output[t] = OrigOutput

\* The second-stage hash has failed: the digest is in the staging buffer,
\* the accumulator has been reseeded, and the caller's buffer is untouched.
C12_Witness ==
  \E t \in Threads :
    /\ th[t].op = "func" /\ th[t].pc = "f_exit" /\ th[t].ret = HASH_ERR
    /\ th[t].len = MBEDTLS_ENTROPY_BLOCK_SIZE
    /\ th[t].fbuf[1] = "H" /\ accumulator.data = <<th[t].fbuf>>
    /\ output[t] = OrigOutput

\* An extraction about to unlock after success that repeats the recorded
\* one: made on the context as mbedtls_entropy_free left it, after nothing
\* but successful registrations, with the same registry, the same length and
\* the same bytes from every poll of its one round.
SameRun(t) ==
  /\ twin.stage = 2
  /\ th[t].op = "func" /\ th[t].pc = "f_unlock" /\ th[t].ret = OK
  /\ th[t].rounds = 1
  /\ twin.mark - calls = source_count + 1
  /\ source_count = twin.count /\ source = twin.source
  /\ th[t].got = twin.got /\ th[t].len = twin.len

\* C13 (as claimed): two extractions on fresh contexts with the same sources,
\* thresholds and source data (some of it, and at least one byte asked for)
\* do not release the same bytes.
C13_FreshOutputsDiffer ==
  \A t \in Threads :
    SameRun(t) /\ th[t].len > 0 /\ (\E s \in Slots : th[t].got[s] > 0)
      => output[t] # twin.out

\* C13 (amended): two extractions on fresh contexts with the same sources,
\* thresholds, source data and length release the same bytes.
C13_FreshOutputsRepeat ==
  \A t \in Threads : SameRun(t) => output[t] = twin.out

\* A whole block has been extracted a second time from two sources that
\* returned bytes, with the registry and the bytes of the recorded run.
C13_Witness ==
  \E t \in Threads :
    /\ SameRun(t) /\ th[t].len = MBEDTLS_ENTROPY_BLOCK_SIZE
    /\ source_count = 2 /\ th[t].got[0] > 0 /\ th[t].got[1] > 0
    /\ output[t] # OrigOutput
\* Why a call of mbedtls_entropy_func failed, for the three causes the
\* claim names: the request was too large, the rounds were used up (the head
\* of the loop was passed max_loop + 2 times), a poll returned an error.
Cause(t) ==
  IF th[t].op # "func" THEN "none"
  ELSE IF th[t].len > MBEDTLS_ENTROPY_BLOCK_SIZE THEN "too_large"
  ELSE IF th[t].pc \in FuncDonePcs /\ th[t].count = max_loop + 2 THEN "loop"
  ELSE IF th[t].pc \in FuncDonePcs /\ (\E k \in Slots : th[t].got[k] = -2)
    THEN "poll"
  ELSE "none"

NamedCauses == {"too_large", "loop", "poll"}

\* C14 (as claimed): two calls that failed for different named causes hold
\* different error values.
C14_NamedErrorsDistinct ==
  \A t1, t2 \in Threads :
    Cause(t1) \in NamedCauses /\ Cause(t2) \in NamedCauses
      /\ Cause(t1) # Cause(t2)
      => th[t1].ret # th[t2].ret

\* C14 (amended): a request that is too large and a call whose rounds are
\* used up both return MBEDTLS_ERR_ENTROPY_SOURCE_FAILED, and a call that
\* failed on a poll returns the value the poll returned.
C14_ErrorOfEachCause ==
  \A t \in Threads :
    /\ Cause(t) = "too_large"
         => th[t].pc = "idle" /\ th[t].ret = MBEDTLS_ERR_ENTROPY_SOURCE_FAILED
    /\ Cause(t) = "loop" => th[t].ret = MBEDTLS_ERR_ENTROPY_SOURCE_FAILED
    /\ Cause(t) = "poll" => th[t].ret = POLL_ERR

\* One caller holds the result of a request that was too large while the
\* other leaves an extraction whose rounds are used up: the same value.
C14_Witness ==
  \E t1, t2 \in Threads :
    /\ Cause(t1) = "too_large" /\ Cause(t2) = "loop"
    /\ th[t2].pc = "f_exit"
    /\ th[t1].ret = th[t2].ret
\* C15: the successful final step of an extraction, with D the digest of
\* what the running hash had absorbed, leaves a started accumulator that has
\* absorbed D and nothing else, hands the caller the first len bytes of the
\* hash of D, and that hash is not D.
C15_FinalStep ==
  \A t \in Threads :
    th[t].pc = "f_finish" /\ th'[t].pc = "f_exit" /\ th'[t].ret = OK
      => LET D == <<"H", accumulator.st, accumulator.data>>
             R == <<"H", "started", <<D>>>>
         IN /\ accumulator' = [st |-> "started", data |-> <<D>>]
            /\ th'[t].fbuf = R
            /\ Written(output'[t], R, th[t].len)
            /\ R # D

C15_AfterSuccess ==
  \A t \in Threads :
    th[t].op = "func" /\ th[t].pc \in FuncDonePcs /\ th[t].ret = OK
      => /\ accumulator.st = "started" /\ Len(accumulator.data) = 1
         /\ LET D == accumulator.data[1]
            IN /\ D[1] = "H"
               /\ Written(output[t], <<"H", "started", <<D>>>>, th[t].len)
               /\ \A j \in 1..OutLen : output[t][j] # ByteOf(D, j)

C15_ReseedAndRelease == [](C15_AfterSuccess) /\ [][C15_FinalStep]_vars

\* A whole block has been released from a running hash that had absorbed
\* the header and the bytes of a source, and the accumulator holds the digest.
C15_Witness ==
  \E t \in Threads :
    /\ th[t].op = "func" /\ th[t].pc = "f_exit" /\ th[t].ret = OK
    /\ th[t].len = MBEDTLS_ENTROPY_BLOCK_SIZE
    /\ Len(accumulator.data) = 1 /\ Len(accumulator.data[1][3]) >= 2
\* ---------------------------------------------------------------- C16
\* A step of thread t in which entropy_update ran: the body of
\* mbedtls_entropy_update_manual, or an iteration of the gather loop whose
\* poll returned bytes.
Mixed(t) ==
  \/ th[t].pc = "um_body" /\ th'[t].pc = "um_unlock"
  \/ /\ th[t].pc = "gi_poll"
     /\ th[t].i < source_count
     /\ th'[t].got[th[t].i] > 0

\* The source id and the length entropy_update was called with in that step.
MixId(t) ==
  IF th[t].pc = "um_body" THEN MBEDTLS_ENTROPY_SOURCE_MANUAL ELSE th[t].i
MixLen(t) ==
  IF th[t].pc = "um_body" THEN th[t].len ELSE th'[t].got[th[t].i]

\* The header and the payload of that contribution: at most a block of
\* payload, longer data replaced by its hash.
MixHeader(t) ==
  <<"hdr", MixId(t),
    IF MixLen(t) > MBEDTLS_ENTROPY_BLOCK_SIZE
    THEN MBEDTLS_ENTROPY_BLOCK_SIZE ELSE MixLen(t)>>
MixPayload(t) ==
  IF MixLen(t) > MBEDTLS_ENTROPY_BLOCK_SIZE
  THEN <<"H", "started", <<<<"data", MixId(t), MixLen(t)>>>>>>
  ELSE <<"data", MixId(t), MixLen(t)>>

\* What the running hash holds when the contribution is absorbed: nothing
\* when the hash is started by this call.
MixBase ==
  IF accumulator_started = 0 THEN <<>> ELSE accumulator.data

C16_Success(t) ==
  accumulator'.data = MixBase \o <<MixHeader(t), MixPayload(t)>>

\* C16 as stated: entropy_update is all-or-nothing.  When it returns success
\* the header and the payload have been absorbed in that order; when it
\* returns failure the accumulator has absorbed no byte of the contribution
\* (it holds what it held, or nothing after a start).
C16_AllOrNothing ==
  [][\A t \in Threads :
       Mixed(t) =>
         IF th'[t].ret = OK THEN C16_Success(t)
         ELSE accumulator'.data \in {accumulator.data, <<>>}]_vars

\* C16: when entropy_update returns success the header and the payload have
\* been absorbed in that order, after what the accumulator held and after
\* nothing else; when it returns failure no payload has been absorbed, but
\* the hash may have been started and the header absorbed without its
\* payload.
C16_PayloadOnlyOnSuccess ==
  [][\A t \in Threads :
       Mixed(t) =>
         IF th'[t].ret = OK
         THEN C16_Success(t) /\ accumulator_started' = 1
         ELSE /\ accumulator'.data \in
                   {accumulator.data, MixBase, Append(MixBase, MixHeader(t))}
              /\ \A k \in 1..Len(accumulator'.data) :
                   accumulator'.data[k] = MixPayload(t)
                     => k <= Len(accumulator.data)
                          /\ accumulator.data[k] = MixPayload(t)]_vars

\* A failed mix has left the header of the contribution in the accumulator
\* without its payload, behind a complete earlier contribution.
C16_Witness ==
  \E t \in Threads :
    /\ th[t].pc \in {"um_unlock", "g_unlock", "f_exit"}
    /\ th[t].ret = HASH_ERR
    /\ Len(accumulator.data) = 3
    /\ accumulator.data[1][1] = "hdr"
    /\ accumulator.data[3][1] = "hdr"
\* ---------------------------------------------------------------- C17
\* The accumulator before the step is kept by the step: what it had absorbed
\* is the beginning of what it has absorbed after.
KeepsAbsorbed ==
  /\ Len(accumulator'.data) >= Len(accumulator.data)
  /\ \A k \in 1..Len(accumulator.data) :
       accumulator'.data[k] = accumulator.data[k]

\* The started flag is true whenever the accumulator holds absorbed data.
StartedWhenAbsorbed ==
  accumulator.data # <<>> => accumulator_started = 1

\* The part of C17 about the mix alone: no mix discards absorbed content.
C17_MixKeepsAbsorbed ==
  [][\A t \in Threads : Mixed(t) => KeepsAbsorbed]_vars

\* C17: a mix starts the hash only when nothing has been absorbed since init,
\* and every later mix continues the running state: the started flag is true
\* whenever the accumulator holds absorbed data, and no mix discards what the
\* accumulator had absorbed, the feed-forward digest of the preceding
\* extraction included.
C17_MixNeverRestarts ==
  /\ [](StartedWhenAbsorbed)
  /\ C17_MixKeepsAbsorbed

\* ---------------------------------------------------------------- C18
\* C18: whenever mbedtls_entropy_func reaches the step that finalizes the
\* running hash, the accumulator has been started by an earlier mix.
C18_StartedAtFinish ==
  \A t \in Threads :
    th[t].op = "func" /\ th[t].pc = "f_finish" => accumulator_started = 1

\* ---------------------------------------------------------------- C19
\* A gather round of thread t has returned to its caller.
RoundReturned(t) ==
  /\ th[t].rounds >= 1
  /\ \/ th[t].op = "gather" /\ th[t].pc = "g_unlock"
     \/ th[t].op = "func" /\ th[t].pc \in {"f_thresh", "f_exit"}
                          /\ th[t].fbuf = <<"uninit">>

\* C19: the polling scratch buffer of a gather round is all zero when the
\* round returns, on every exit path.
C19_ScratchZeroOnReturn ==
  \A t \in Threads : RoundReturned(t) => th[t].gbuf = "zero"
\* ---------------------------------------------------------------- C20
\* Thread t is in mbedtls_entropy_func and took the lock.
FuncLocked(t) ==
  th[t].op = "func" /\ th[t].pc \notin {"idle", "f_lock"}

\* The step in which mbedtls_entropy_func releases the lock.
FuncReleases(t) ==
  FuncLocked(t) /\ mutex = t /\ mutex' # t

C20_ZeroAtUnlock ==
  \A t \in Threads :
    th[t].op = "func" /\ th[t].pc = "f_unlock"
      => th[t].fbuf = <<"zero">> /\ mutex = t

\* C20: on every exit path of mbedtls_entropy_func that took the lock the
\* staging buffer buf is zeroized, and it is zeroized before the lock is
\* released: the lock is still held when the extraction stands before its
\* unlock with buf zero, and the step that releases the lock starts with buf
\* zero and leaves the extraction.
C20_ZeroizedBeforeUnlock ==
  /\ [](C20_ZeroAtUnlock)
  /\ [][\A t \in Threads :
          FuncReleases(t) => th[t].fbuf = <<"zero">> /\ th'[t].pc = "idle"]_vars

\* An extraction stands before its unlock after a failure in its final step:
\* the last round mixed nothing, so the hash error is of finish, restart,
\* reseed update or second-stage hash.
C20_Witness ==
  \E t \in Threads :
    /\ th[t].op = "func" /\ th[t].pc = "f_unlock"
    /\ th[t].ret = HASH_ERR
    /\ source_count > 0
    /\ \A s \in Slots : s < source_count => th[t].got[s] = 0
    /\ th[t].fbuf = <<"zero">>
    /\ mutex = t
\* ---------------------------------------------------------------- C21
Min(a, b) == IF a < b THEN a ELSE b

\* The mix of this step absorbed h as its header: after a success h stands
\* directly before the payload at the end of what the accumulator absorbed;
\* after a failure that absorbed one more byte string, that string is h.
HeaderAbsorbed(t, h) ==
  LET n == Len(accumulator'.data)
  IN IF th'[t].ret = OK
     THEN /\ n >= 2
          /\ accumulator'.data[n - 1] = h
          /\ accumulator'.data[n] = MixPayload(t)
     ELSE accumulator'.data # accumulator.data /\ n = Len(MixBase) + 1
            => accumulator'.data[n] = h

\* C21 as stated: the header absorbed before the payload is {t, min(len, 255)}
\* with len the length of the data as supplied, lengths above the block size
\* included.
C21_HeaderHasSuppliedLen ==
  [][\A t \in Threads :
       Mixed(t) =>
         HeaderAbsorbed(t, <<"hdr", MixId(t), Min(MixLen(t), 255)>>)]_vars

\* C21: the header absorbed before the payload is {t, n} with n the low byte
\* of the length of the payload that is absorbed: len when len is at most the
\* block size, the block size when longer data was pre-hashed down to a block.
C21_HeaderHasPayloadLen ==
  [][\A t \in Threads :
       Mixed(t) =>
         HeaderAbsorbed(t, <<"hdr", MixId(t),
                             Min(MixLen(t), MBEDTLS_ENTROPY_BLOCK_SIZE) % 256>>)]_vars

\* The accumulator holds a contribution that was longer than a block: its
\* payload is the hash of the data, its header carries the block size.
C21_Witness ==
  \E k \in 1..(Len(accumulator.data) - 1) :
    /\ accumulator.data[k][1] = "hdr"
    /\ accumulator.data[k][3] = MBEDTLS_ENTROPY_BLOCK_SIZE
    /\ accumulator.data[k + 1][1] = "H"
    /\ accumulator.data[k + 1][3][1][3] > MBEDTLS_ENTROPY_BLOCK_SIZE
\* ---------------------------------------------------------------- C22
\* A caller whose sources never have anything new registers them and
\* extracts, with mbedtls_entropy_func built with its own loop limit.
LoopAddSource(t) ==
  /\ CallAddSource(t)
  /\ th'[t].f_source = "null_poll"

InitLoop ==
  /\ InitCtx
  /\ calls = LoopCalls
  /\ hash_fails = 0
  /\ max_loop = ENTROPY_MAX_LOOP

NextLoop ==
  \/ LoopAddSource(1) \/ AddSourceLock(1) \/ AddSourceBody(1)
  \/ AddSourceUnlock(1)
  \/ CallFunc(1) \/ FuncLock(1) \/ FuncLoop(1)
  \/ GatherStart(1) \/ GatherPoll(1) \/ GatherEnd(1)
  \/ FuncThresh(1) \/ FuncFinish(1) \/ FuncExit(1) \/ FuncUnlock(1)

SpecLoop == InitLoop /\ [][NextLoop]_vars

\* C22: one call of mbedtls_entropy_func starts at most ENTROPY_MAX_LOOP
\* gather rounds; with the thresholds unmet after that many rounds it fails
\* without starting another one.
C22_AtMostMaxLoopRounds ==
  \A t \in Threads :
    th[t].op = "func" => th[t].rounds <= ENTROPY_MAX_LOOP
\* ---------------------------------------------------------------- C23
\* The operations that take the lock, the labels at which they wait for it,
\* and a thread that is between its spin_lock and its spin_unlock.
LockedOps == {"add_source", "update_manual", "gather", "func"}
LockPcs == {"as_lock", "um_lock", "g_lock", "f_lock"}
InsideLock(t) ==
  th[t].op \in LockedOps /\ th[t].pc \notin ({"idle"} \cup LockPcs)

\* A step of thread t that takes the lock, and one in which its call returns.
Acquires(t) == th[t].pc \in LockPcs /\ th'[t].pc \notin LockPcs
Returns(t) == th[t].pc # "idle" /\ th'[t].pc = "idle"

\* A poll of thread t goes through a slot that mbedtls_entropy_free zeroized
\* after the source was registered: the call does not return.
NullPoll(t) ==
  /\ th[t].pc = "gi_poll"
  /\ th[t].i < source_count
  /\ source[th[t].i].f_source = NULL

\* Two threads call the operations concurrently, four calls in all, with
\* whole blocks for the manual contributions and the extractions, and
\* sources whose polls fail or return at most one byte.
LockUpdateManual(t) ==
  /\ CallUpdateManual(t)
  /\ th'[t].len = MBEDTLS_ENTROPY_BLOCK_SIZE

LockFunc(t) ==
  /\ CallFunc(t)
  /\ th'[t].len = MBEDTLS_ENTROPY_BLOCK_SIZE

LockAddSource(t) ==
  /\ CallAddSource(t)
  /\ th'[t].f_source = "any_poll"

LockPoll(t) ==
  /\ GatherPoll(t)
  /\ th'[t].got[th[t].i] <= 1

LockStep(t) ==
  \/ LockAddSource(t) \/ AddSourceLock(t) \/ AddSourceBody(t) \/ AddSourceUnlock(t)
  \/ CallFree(t) \/ FreeAcc(t) \/ FreeSrc(t)
  \/ LockUpdateManual(t) \/ UpdateManualLock(t) \/ UpdateManualBody(t)
  \/ UpdateManualUnlock(t)
  \/ CallGather(t) \/ GatherLock(t) \/ GatherUnlock(t)
  \/ GatherStart(t) \/ LockPoll(t) \/ GatherEnd(t)
  \/ LockFunc(t) \/ FuncLock(t) \/ FuncLoop(t) \/ FuncThresh(t)
  \/ FuncFinish(t) \/ FuncExit(t) \/ FuncUnlock(t)

InitLock ==
  /\ InitCtx
  /\ calls = LockCalls
  /\ hash_fails = 0
  /\ max_loop = MaxLoop

NextLock == \E t \in Threads : LockStep(t)

\* The threads keep running, and a thread that spins on the lock gets it
\* when it is free again and again: spin_lock hands the lock to its waiters.
SpecLock ==
  /\ InitLock /\ [][NextLock]_vars
  /\ \A t \in Threads :
       WF_vars(LockStep(t)) /\ SF_vars(LockStep(t) /\ Acquires(t))

\* The lock is held exactly by the thread that is between spin_lock and
\* spin_unlock of a locked operation: it is free when no thread is.
C23_HeldOnlyInside ==
  /\ mutex \in {0} \cup Threads
  /\ \A t \in Threads : InsideLock(t) <=> mutex = t

\* A locked operation releases the lock in the step in which it returns, and
\* in no other step; the lock it releases is the one it holds.
C23_ReleasedAtReturn ==
  \A t \in Threads :
    /\ th[t].op \in LockedOps /\ Returns(t) => mutex = t /\ mutex' = 0
    /\ mutex = t /\ mutex' # t => Returns(t) /\ mutex' = 0
    /\ Acquires(t) => mutex = 0 /\ mutex' = t

\* A thread that waits for the lock eventually gets it.
C23_WaiterGetsLock ==
  \A t \in Threads : th[t].pc \in LockPcs ~> mutex = t

\* A thread that waits for the lock eventually gets it, unless the holder
\* of the lock is in a poll through a zeroized slot.
C23_WaiterGetsLockUnlessNullPoll ==
  \A t \in Threads :
    th[t].pc \in LockPcs ~> (mutex = t \/ \E u \in Threads : NullPoll(u))

====
